---- MODULE Spec2Model ----
(***************************************************************************)
(* State-machine model of the FIPS patent parser (src/fips/parser.py).     *)
(* The program drives one browser session: it opens the start page,        *)
(* selects the search options, fills and submits the search form, and then *)
(* walks the result pages, opening one detail window per result row.       *)
(* The browser, the site and the file sink are the environment: every call *)
(* into them that the code guards with try/except may succeed or raise,    *)
(* chosen with \E in the action that models the calling handler.           *)
(***************************************************************************)
EXTENDS Integers, Sequences, FiniteSets, TLC

(* ---- bounds of the model (not program constants) ---------------------- *)
\* the site never serves more than MaxPages result pages
MaxPages == 4
\* the site serves result pages of one size, at most MaxRows rows
MaxRows == 2
\* at most MaxDeviations steps of the row loop of one run leave the nominal
\* path (malformed row, failing window / wait / extraction step, failing
\* sink call); failing fetches and navigation steps are not limited
MaxDeviations == 1
\* the status-filter pass is applied at most MaxApplications times in a row
MaxApplications == 2
\* at most MaxBoxFailures status checkboxes fail in one run of the search
\* form (the pass alone is explored with every combination of failures)
MaxBoxFailures == 1
\* a text block of a detail page has at most MaxTextLen tokens
MaxTextLen == 3
\* the bib table of a detail page has at most MaxParagraphs text blocks
MaxParagraphs == 2
\* a result page walked on its own has at most MaxLongPage rows
MaxLongPage == 6

(* ---- program constants ------------------------------------------------ *)
max_retries == 3
TestPageCeiling == 3
TestRowCap == 5
RequiredColumns == 6

MainWin == 0

\* iteration order of status_mapping (dict insertion order)
StatusOrder ==
  <<"status_active", "status_may_terminate",
    "status_terminated_recoverable", "status_terminated">>

StatusKeys == {StatusOrder[i] : i \in 1..Len(StatusOrder)}

\* StatusOptions(): every field defaults to False
DefaultStatusOptions == [k \in StatusKeys |-> FALSE]

\* the two entry points of the repository
Configs ==
  { [test_mode |-> TRUE, status_options |-> DefaultStatusOptions],
    [test_mode |-> FALSE,
     status_options |-> [DefaultStatusOptions EXCEPT !["status_active"] = TRUE]] }

\* positions (1-based) of the two category checkboxes the code clicks
CatBoxes == {1, 4}
NoCatBoxes == [c \in CatBoxes |-> FALSE]
NoStatusBoxes == [k \in StatusKeys |-> FALSE]

VARIABLES
  pc,             \* position of the single thread of control
  test_mode,      \* FIPSParser.test_mode
  status_options, \* FIPSParser.status_options
  cat_boxes,      \* checked state of the category checkboxes (start page)
  status_boxes,   \* checked state of the status checkboxes (form page)
  handles,        \* driver.window_handles, in order
  active,         \* window the driver is switched to (may be closed)
  more,           \* the site has a further result page after the current one
  page_rows,      \* number of rows the site lists on a result page
  page,           \* collect_all_results: page
  all_results,    \* collect_all_results: all_results
  retry_count,    \* collect_all_results: retry_count
  results,        \* results of the running / last _parse_search_results
  elements,       \* number of row elements captured by the running fetch
  idx,            \* index of the row element the for-loop is at
  details,        \* value returned by the last _get_patent_details
  nav_ret,        \* value returned by the last _go_to_next_page
  csv,            \* rows appended to the CSV file, in order
  xlsx,           \* rows whose detail workbook was written, in order
  raise_cause,    \* why start_search raised ("none" while it has not)
  deviations,     \* rows that left the nominal path so far (model bound)
  next_clicks,    \* click calls issued on the next-page control so far
  consulted,      \* pages on which the next-page control was looked up
  steady,         \* every consultation so far found an enabled control
  fetches,        \* _parse_search_results calls made for the current page
  timeouts,       \* rows whose detail view did not become ready in time
  malformed,      \* rows of the current result page that lack a column
  parse_calls,    \* _parse_patent_element calls per row of the current page
  total_fetches,  \* _parse_search_results calls made by collect_all_results
  record,         \* _extract_patent_details: details, the dict being filled
  view,           \* content of the detail page _extract_patent_details reads
  paragraphs,     \* <p> elements of the bib table the for-loop has yet to do
  written,        \* entries the for-loop over the <p> elements assigned so far
  detail_calls,   \* _get_patent_details calls per row of the current page
  last            \* what the most recent handler call did (observation)

vars ==
  <<pc, test_mode, status_options, cat_boxes, status_boxes, handles, active,
    more, page_rows, page, all_results, retry_count, results, elements, idx, details,
    nav_ret, csv, xlsx, raise_cause, deviations, next_clicks, consulted,
    steady, fetches, timeouts, malformed, parse_calls, total_fetches,
    record, view, paragraphs, written, detail_calls, last>>

NoOp == [op |-> "none"]

\* positions a row can have on a result page
RowIds == 1..(IF MaxRows > MaxLongPage THEN MaxRows ELSE MaxLongPage)

\* no row of the page has been handed to _parse_patent_element yet
NoCalls == [j \in RowIds |-> 0]

\* the dict {}
EmptyRecord == [k \in {} |-> <<>>]

\* no detail page is being read
NoView == [loaded |-> FALSE]

Range(s) == {s[i] : i \in 1..Len(s)}

Count(S) == Cardinality(S)

(* ---- _select_search_options ------------------------------------------- *)
\* outcome of one locate-and-click strategy
StrategyOutcomes == {"clicked", "clickfail", "notfound"}
\* outcome of locating and clicking one checkbox
BoxOutcomes == {"ok", "notfound", "clickfail"}

\* outcomes of the environment; a fallback that is never consulted is
\* fixed to the nominal value
SelectEnvs ==
  {e \in [hdr1 : StrategyOutcomes, hdr2 : StrategyOutcomes,
          cb1 : BoxOutcomes, cb4 : BoxOutcomes,
          btn1 : StrategyOutcomes, btn2 : StrategyOutcomes] :
     /\ e.hdr1 = "clicked" => e.hdr2 = "clicked"
     /\ e.btn1 = "clicked" => e.btn2 = "clicked"}

\* no exception
NoError == [type |-> "none", target |-> "none", attempted |-> <<>>]

\* the exception a failing locate-and-click call raises: Selenium's
\* TimeoutException from wait.until, or the WebDriverException of the click;
\* neither carries the name of a target or a list of strategies
SeleniumError(o) ==
  [type |-> IF o = "notfound" THEN "TimeoutException"
            ELSE "WebDriverException",
   target |-> "none", attempted |-> <<>>]

\* primary strategy, then the fallback inside the except branch; the
\* exception of the primary strategy is logged and dropped, the exception
\* of the fallback leaves the method as it is
TwoStrategies(first, second, o1, o2) ==
  LET ev1 == <<<<"find", first>>>> \o
             (IF o1 # "notfound" THEN <<<<"click", first>>>> ELSE <<>>)
      ev2 == <<<<"find", second>>>> \o
             (IF o2 # "notfound" THEN <<<<"click", second>>>> ELSE <<>>)
  IN IF o1 = "clicked"
       THEN [ok |-> TRUE, events |-> ev1, error |-> NoError]
     ELSE IF o2 = "clicked"
       THEN [ok |-> TRUE, events |-> ev1 \o ev2, error |-> NoError]
     ELSE [ok |-> FALSE, events |-> ev1 \o ev2, error |-> SeleniumError(o2)]

\* both category checkboxes are located first, then clicked one after the
\* other without looking at their checked state
ClickCategoryBoxes(cat, e) ==
  LET found == e.cb1 # "notfound" /\ e.cb4 # "notfound"
      c1 == found /\ e.cb1 = "ok"
      c4 == c1 /\ e.cb4 = "ok"
      evf == <<<<"find", "category_1">>>> \o
             (IF e.cb1 # "notfound" THEN <<<<"find", "category_4">>>> ELSE <<>>)
      evc == (IF found THEN <<<<"click", "category_1">>>> ELSE <<>>) \o
             (IF c1 THEN <<<<"click", "category_4">>>> ELSE <<>>)
  IN [boxes |-> [c \in CatBoxes |->
                   IF (c = 1 /\ c1) \/ (c = 4 /\ c4) THEN ~cat[c] ELSE cat[c]],
      events |-> evf \o evc]

SelectSearchOptionsRun(cat, e) ==
  LET hdr == TwoStrategies("header_by_text", "header_by_class", e.hdr1, e.hdr2)
      cbs == ClickCategoryBoxes(cat, e)
      btn == TwoStrategies("button_by_value", "button_in_container",
                           e.btn1, e.btn2)
  IN IF ~hdr.ok
       THEN [raised |-> "section_header", boxes |-> cat, events |-> hdr.events,
             error |-> hdr.error]
       ELSE [raised |-> IF btn.ok THEN "none" ELSE "search_button",
             boxes |-> cbs.boxes,
             events |-> hdr.events \o cbs.events \o btn.events,
             error |-> btn.error]

(* ---- _set_status_filters ---------------------------------------------- *)
StatusEnvs == [StatusKeys -> BoxOutcomes]

RECURSIVE StatusPassAlwaysClicks(_, _, _, _)
\* variant of StatusPass that clicks every checkbox it locates
StatusPassAlwaysClicks(i, boxes, opts, env) ==
  IF i > Len(StatusOrder)
    THEN [boxes |-> boxes, events |-> <<>>]
    ELSE LET k == StatusOrder[i]
             found == env[k] # "notfound"
             b2 == IF found /\ env[k] = "ok"
                     THEN [boxes EXCEPT ![k] = ~boxes[k]] ELSE boxes
             ev == <<<<"find", k>>>> \o
                   (IF found THEN <<<<"click", k>>>> ELSE <<>>)
             rest == StatusPassAlwaysClicks(i + 1, b2, opts, env)
         IN [boxes |-> rest.boxes, events |-> ev \o rest.events]

RECURSIVE StatusPassStopsAtFailure(_, _, _, _)
\* variant of StatusPass whose try encloses the for-loop: the first lookup
\* or click that raises ends the pass
StatusPassStopsAtFailure(i, boxes, opts, env) ==
  IF i > Len(StatusOrder)
    THEN [boxes |-> boxes, events |-> <<>>]
    ELSE LET k == StatusOrder[i]
             found == env[k] # "notfound"
             need == found /\ boxes[k] # opts[k]
             b2 == IF need /\ env[k] = "ok"
                     THEN [boxes EXCEPT ![k] = ~boxes[k]] ELSE boxes
             ev == <<<<"find", k>>>> \o
                   (IF need THEN <<<<"click", k>>>> ELSE <<>>)
             rest == IF ~found \/ (need /\ env[k] # "ok")
                       THEN [boxes |-> b2, events |-> <<>>]
                       ELSE StatusPassStopsAtFailure(i + 1, b2, opts, env)
         IN [boxes |-> rest.boxes, events |-> ev \o rest.events]

RECURSIVE StatusPass(_, _, _, _)
\* the for-loop over status_mapping from position i on
StatusPass(i, boxes, opts, env) ==
  IF i > Len(StatusOrder)
    THEN [boxes |-> boxes, events |-> <<>>]
    ELSE LET k == StatusOrder[i]
             found == env[k] # "notfound"
             need == found /\ boxes[k] # opts[k]
             b2 == IF need /\ env[k] = "ok"
                     THEN [boxes EXCEPT ![k] = ~boxes[k]] ELSE boxes
             ev == <<<<"find", k>>>> \o
                   (IF need THEN <<<<"click", k>>>> ELSE <<>>)
             rest == StatusPass(i + 1, b2, opts, env)
         IN [boxes |-> rest.boxes, events |-> ev \o rest.events]

SetStatusFiltersRun(boxes, opts, env) == StatusPass(1, boxes, opts, env)

\* number of click calls in an event list
Clicks(ev) == Count({i \in 1..Len(ev) : ev[i][1] = "click"})

(* ---- _fill_search_form ------------------------------------------------ *)
AllBoxesOk == [k \in StatusKeys |-> "ok"]

\* outcomes of the environment; choices behind the first raising step are
\* never consulted and are fixed to the nominal value
FormEnvs ==
  {e \in [input : {"found", "notfound"}, typing : {"ok", "raise"},
          status : StatusEnvs, submit : StrategyOutcomes] :
     /\ Count({k \in StatusKeys : e.status[k] # "ok"}) <= MaxBoxFailures
     /\ (e.input = "notfound" \/ e.typing = "raise")
          => (e.status = AllBoxesOk /\ e.submit = "clicked"
              /\ (e.input = "notfound" => e.typing = "ok"))}

\* variant of FillSearchFormRun in which a status checkbox that cannot be
\* located or clicked raises out of the form step
FillSearchFormStatusRaises(boxes, opts, e) ==
  LET st == SetStatusFiltersRun(boxes, opts, e.status)
      evin == <<<<"find", "query_input">>>>
      evty == <<<<"clear", "query_input">>, <<"type", "query_input">>>>
      evsub == <<<<"find", "submit_button">>>> \o
               (IF e.submit # "notfound"
                  THEN <<<<"click", "submit_button">>>> ELSE <<>>)
  IN IF e.input = "notfound"
       THEN [raised |-> "query_input", boxes |-> boxes, events |-> evin]
     ELSE IF e.typing = "raise"
       THEN [raised |-> "query_fill", boxes |-> boxes,
             events |-> evin \o <<<<"clear", "query_input">>>>]
     ELSE IF e.status # AllBoxesOk
       THEN [raised |-> "status_checkbox", boxes |-> st.boxes,
             events |-> evin \o evty \o st.events]
     ELSE [raised |-> IF e.submit = "clicked" THEN "none" ELSE "submit_button",
           boxes |-> st.boxes,
           events |-> evin \o evty \o st.events \o evsub]

\* variant of FillSearchFormRun that logs a missing query input and goes on
\* with the status pass and the submit
FillSearchFormIgnoresMissingInput(boxes, opts, e) ==
  LET st == SetStatusFiltersRun(boxes, opts, e.status)
      evin == <<<<"find", "query_input">>>>
      evty == <<<<"clear", "query_input">>, <<"type", "query_input">>>>
      evsub == <<<<"find", "submit_button">>>> \o
               (IF e.submit # "notfound"
                  THEN <<<<"click", "submit_button">>>> ELSE <<>>)
  IN IF e.input = "notfound"
       THEN [raised |-> IF e.submit = "clicked" THEN "none"
                        ELSE "submit_button",
             boxes |-> st.boxes, events |-> evin \o st.events \o evsub]
     ELSE IF e.typing = "raise"
       THEN [raised |-> "query_fill", boxes |-> boxes,
             events |-> evin \o <<<<"clear", "query_input">>>>]
     ELSE [raised |-> IF e.submit = "clicked" THEN "none" ELSE "submit_button",
           boxes |-> st.boxes,
           events |-> evin \o evty \o st.events \o evsub]

FillSearchFormRun(boxes, opts, e) ==
  LET st == SetStatusFiltersRun(boxes, opts, e.status)
      evin == <<<<"find", "query_input">>>>
      evty == <<<<"clear", "query_input">>, <<"type", "query_input">>>>
      evsub == <<<<"find", "submit_button">>>> \o
               (IF e.submit # "notfound"
                  THEN <<<<"click", "submit_button">>>> ELSE <<>>)
  IN IF e.input = "notfound"
       THEN [raised |-> "query_input", boxes |-> boxes, events |-> evin]
     ELSE IF e.typing = "raise"
       THEN [raised |-> "query_fill", boxes |-> boxes,
             events |-> evin \o <<<<"clear", "query_input">>>>]
     ELSE [raised |-> IF e.submit = "clicked" THEN "none" ELSE "submit_button",
           boxes |-> st.boxes,
           events |-> evin \o evty \o st.events \o evsub]

(* ---- windows of the session ------------------------------------------- *)
\* the driver can talk to the page only while its window is open
Alive(h, a) == a \in Range(h)

\* the driver is switched to the open main (results) window
OnResults(h, a) == a = MainWin /\ MainWin \in Range(h)

\* handle of a newly opened window: the smallest id not in use
NewWin(h, a) ==
  CHOOSE n \in 1..(Len(h) + 2) :
    /\ n \notin Range(h) \cup {a}
    /\ \A m \in 1..(n - 1) : m \in Range(h) \cup {a}

\* driver.close(): the active window leaves window_handles
CloseWin(h, a) == SelectSeq(h, LAMBDA w : w # a)

(* ---- _handle_failed_detail_extraction --------------------------------- *)
\* variant of HandleFailedDetailExtraction that closes the window but does
\* not switch back to window_handles[0]
HandleFailedNoSwitchBack(h, a, e, dev) ==
  IF ~Alive(h, a)
    THEN [handles |-> h, active |-> a, details |-> "empty", dev |-> dev]
  ELSE IF e.hclose = "raise"
    THEN [handles |-> h, active |-> a, details |-> "empty", dev |-> dev + 1]
  ELSE [handles |-> CloseWin(h, a), active |-> a, details |-> "empty",
        dev |-> dev]

\* close the active window, then switch to window_handles[0]; any failure
\* is swallowed.  dev: number of environment failures consulted.
HandleFailedDetailExtraction(h, a, e, dev) ==
  IF ~Alive(h, a)
    THEN [handles |-> h, active |-> a, details |-> "empty", dev |-> dev]
  ELSE IF e.hclose = "raise"
    THEN [handles |-> h, active |-> a, details |-> "empty", dev |-> dev + 1]
  ELSE LET h2 == CloseWin(h, a)
       IN IF h2 = <<>>
            THEN [handles |-> h2, active |-> a, details |-> "empty",
                  dev |-> dev]
          ELSE IF e.hback = "raise"
            THEN [handles |-> h2, active |-> a, details |-> "empty",
                  dev |-> dev + 1]
          ELSE [handles |-> h2, active |-> h2[1], details |-> "empty",
                dev |-> dev]

(* ---- _get_patent_details ---------------------------------------------- *)
\* outcomes of the environment, one per call into the browser; a call
\* behind the first raising one is never made and is fixed to the nominal
\* value
DetailEnvs ==
  {e \in [open : {"ok", "blocked", "raise"}, sw : {"ok", "raise"},
          wait : {"ready", "timeout"}, ext : {"ok", "raise"},
          close : {"ok", "raise"}, back : {"ok", "raise"},
          hclose : {"ok", "raise"}, hback : {"ok", "raise"}] :
     /\ e.open = "raise" => e.sw = "ok"
     /\ (e.open = "raise" \/ e.sw = "raise") => e.wait = "ready"
     /\ (e.open = "raise" \/ e.sw = "raise" \/ e.wait = "timeout")
          => e.ext = "ok"
     /\ (e.open = "raise" \/ e.sw = "raise" \/ e.wait = "timeout"
           \/ e.ext = "raise") => e.close = "ok"
     /\ (e.open = "raise" \/ e.sw = "raise" \/ e.wait = "timeout"
           \/ e.ext = "raise" \/ e.close = "raise") => e.back = "ok"
     /\ (e.open = "ok" /\ e.sw = "ok" /\ e.wait = "ready" /\ e.ext = "ok"
           /\ e.close = "ok" /\ e.back = "ok")
          => (e.hclose = "ok" /\ e.hback = "ok")
     /\ e.hclose = "raise" => e.hback = "ok"}

\* window.open, switch to window_handles[-1], wait for StatusR and bib,
\* extract, close, switch to window_handles[0]; the first failing step
\* hands over to _handle_failed_detail_extraction and {} is returned
GetPatentDetailsRun(h, a, e) ==
  LET d1 == IF e.open = "ok" THEN 0 ELSE 1
      h1 == IF e.open = "ok" THEN Append(h, NewWin(h, a)) ELSE h
      a2 == h1[Len(h1)]
      h5 == CloseWin(h1, a2)
  IN IF ~Alive(h, a)
       THEN HandleFailedDetailExtraction(h, a, e, 0)
     ELSE IF e.open = "raise"
       THEN HandleFailedDetailExtraction(h, a, e, 1)
     ELSE IF e.sw = "raise"
       THEN HandleFailedDetailExtraction(h1, a, e, d1 + 1)
     ELSE IF a2 = MainWin
       \* the results page has no StatusR element: the wait times out
       THEN HandleFailedDetailExtraction(h1, a2, e, d1)
     ELSE IF e.wait = "timeout"
       THEN HandleFailedDetailExtraction(h1, a2, e, d1 + 1)
     ELSE IF e.ext = "raise"
       THEN HandleFailedDetailExtraction(h1, a2, e, d1 + 1)
     ELSE IF e.close = "raise"
       THEN HandleFailedDetailExtraction(h1, a2, e, d1 + 1)
     ELSE IF h5 = <<>>
       THEN HandleFailedDetailExtraction(h5, a2, e, d1)
     ELSE IF e.back = "raise"
       THEN HandleFailedDetailExtraction(h5, a2, e, d1 + 1)
     ELSE [handles |-> h5, active |-> h5[1], details |-> "full", dev |-> d1]

(* ---- next-page control ------------------------------------------------ *)
\* markup of the next-page control as one lookup sees it: no such element,
\* or an element with or without the disabled class and with its onclick
NoControl == [present |-> FALSE, disabled |-> FALSE, onclick |-> "none"]

Markups ==
  {NoControl} \cup
  [present : {TRUE}, disabled : BOOLEAN,
   onclick : {"none", "empty", "return_false", "handler"}]

Actionable(m) == m.onclick \notin {"none", "empty", "return_false"}

EnabledMarkup == [present |-> TRUE, disabled |-> FALSE, onclick |-> "handler"]

\* what the site renders: an enabled control while more pages follow, and
\* otherwise no control, a disabled one, or one without an action
MarkupsFor(m) ==
  IF m THEN {EnabledMarkup}
       ELSE {k \in Markups : ~k.present \/ k.disabled \/ ~Actionable(k)}

\* variant of HasNextPage that never looks at the disabled class
HasNextPageIgnoresDisabled(m, look1) ==
  IF look1 = "raise" \/ ~m.present THEN FALSE
  ELSE Actionable(m)

\* _has_next_page: look1 = "raise" is a lookup or attribute read that raises
HasNextPage(m, look1) ==
  IF look1 = "raise" \/ ~m.present THEN FALSE
  ELSE IF ~Actionable(m) THEN FALSE
  ELSE ~m.disabled

\* outcomes of the environment; a call behind the one that ends the
\* handler is never made and is fixed to the nominal value
NavEnvs ==
  {e \in [look1 : {"ok", "raise"},
          look2 : {"ok", "find_raise", "attr_raise", "disabled", "inert"},
          click : {"ok", "raise"}, wait : {"results", "timeout"}] :
     /\ e.look1 = "raise" => e.look2 = "ok"
     /\ (e.look1 = "raise" \/ e.look2 \in {"find_raise", "disabled", "inert"})
          => e.click = "ok"
     /\ (e.look1 = "raise" \/ e.look2 \in {"find_raise", "disabled", "inert"}
           \/ e.click = "raise") => e.wait = "results"}

\* variant of GoToNextPageRun that reports success once the click was
\* issued, whether or not it went through
GoToNextPageTrueAfterFailedClick(onres, m, e) ==
  LET has == onres /\ HasNextPage(m, e.look1)
      base == [op |-> "go_to_next_page", found |-> onres /\ m.present
                                                    /\ e.look1 = "ok",
               disabled |-> onres /\ m.present /\ e.look1 = "ok" /\ m.disabled,
               actionable |-> Actionable(m), clicked |-> FALSE,
               activated |-> FALSE, waited |-> "none", relookup |-> "none",
               ret |-> FALSE]
      \* markup at the second lookup
      m2 == IF e.look2 = "disabled" THEN [m EXCEPT !.disabled = TRUE]
            ELSE IF e.look2 = "inert" THEN [m EXCEPT !.onclick = "return_false"]
            ELSE m
      checked == e.look2 \in {"ok", "disabled", "inert"}
      seen == [base EXCEPT !.disabled = base.disabled \/ (checked /\ m2.disabled),
                           !.actionable = Actionable(m) /\ Actionable(m2),
                           !.relookup = "bound"]
  IN IF ~has THEN base
     \* the lookup raised: next_button is unbound and the click raises
     ELSE IF e.look2 = "find_raise" \/ ~m2.present
       THEN [base EXCEPT !.relookup = "raised"]
     ELSE IF checked /\ (m2.disabled \/ ~Actionable(m2)) THEN seen
     ELSE IF e.click = "raise" THEN [seen EXCEPT !.clicked = TRUE,
                                                 !.ret = TRUE]
     ELSE [seen EXCEPT !.clicked = TRUE, !.activated = TRUE, !.ret = TRUE,
                       !.waited = IF e.wait = "results" THEN "results"
                                  ELSE "page_load"]

\* variant of GoToNextPageRun in which the click after a failed second
\* lookup goes to the control the first lookup found
GoToNextPageClicksAfterFailedLookup(onres, m, e) ==
  LET has == onres /\ HasNextPage(m, e.look1)
      base == [op |-> "go_to_next_page", found |-> onres /\ m.present
                                                    /\ e.look1 = "ok",
               disabled |-> onres /\ m.present /\ e.look1 = "ok" /\ m.disabled,
               actionable |-> Actionable(m), clicked |-> FALSE,
               activated |-> FALSE, waited |-> "none", relookup |-> "none",
               ret |-> FALSE]
      \* markup at the second lookup
      m2 == IF e.look2 = "disabled" THEN [m EXCEPT !.disabled = TRUE]
            ELSE IF e.look2 = "inert" THEN [m EXCEPT !.onclick = "return_false"]
            ELSE m
      checked == e.look2 \in {"ok", "disabled", "inert"}
      seen == [base EXCEPT !.disabled = base.disabled \/ (checked /\ m2.disabled),
                           !.actionable = Actionable(m) /\ Actionable(m2),
                           !.relookup = "bound"]
  IN IF ~has THEN base
     ELSE IF e.look2 = "find_raise" \/ ~m2.present
       THEN [base EXCEPT !.relookup = "raised", !.clicked = TRUE,
                         !.activated = TRUE, !.ret = TRUE,
                         !.waited = "results"]
     ELSE IF checked /\ (m2.disabled \/ ~Actionable(m2)) THEN seen
     ELSE IF e.click = "raise" THEN [seen EXCEPT !.clicked = TRUE]
     ELSE [seen EXCEPT !.clicked = TRUE, !.activated = TRUE, !.ret = TRUE,
                       !.waited = IF e.wait = "results" THEN "results"
                                  ELSE "page_load"]

\* _go_to_next_page on a page whose control has markup m.  look2 is the
\* second lookup: it may raise before next_button is bound (find_raise),
\* raise after it is bound (attr_raise), or see the control turned disabled
\* or inert since the first lookup.
GoToNextPageRun(onres, m, e) ==
  LET has == onres /\ HasNextPage(m, e.look1)
      base == [op |-> "go_to_next_page", found |-> onres /\ m.present
                                                    /\ e.look1 = "ok",
               disabled |-> onres /\ m.present /\ e.look1 = "ok" /\ m.disabled,
               actionable |-> Actionable(m), clicked |-> FALSE,
               activated |-> FALSE, waited |-> "none", relookup |-> "none",
               ret |-> FALSE]
      \* markup at the second lookup
      m2 == IF e.look2 = "disabled" THEN [m EXCEPT !.disabled = TRUE]
            ELSE IF e.look2 = "inert" THEN [m EXCEPT !.onclick = "return_false"]
            ELSE m
      checked == e.look2 \in {"ok", "disabled", "inert"}
      seen == [base EXCEPT !.disabled = base.disabled \/ (checked /\ m2.disabled),
                           !.actionable = Actionable(m) /\ Actionable(m2),
                           !.relookup = "bound"]
  IN IF ~has THEN base
     \* the lookup raised: next_button is unbound and the click raises
     ELSE IF e.look2 = "find_raise" \/ ~m2.present
       THEN [base EXCEPT !.relookup = "raised"]
     ELSE IF checked /\ (m2.disabled \/ ~Actionable(m2)) THEN seen
     ELSE IF e.click = "raise" THEN [seen EXCEPT !.clicked = TRUE]
     ELSE [seen EXCEPT !.clicked = TRUE, !.activated = TRUE, !.ret = TRUE,
                       !.waited = IF e.wait = "results" THEN "results"
                                  ELSE "page_load"]

(* ---- _parse_patent_element -------------------------------------------- *)
\* variant of ParsePatentElementRun that never indexes past the columns a
\* row has
ParsePatentElementIgnoresColumns(onres, cols) == onres

\* a PatentResult is built only from a live results page and a row with
\* columns[5]; every exception yields None
ParsePatentElementRun(onres, cols) == onres /\ cols >= RequiredColumns

\* number of div.td containers of row j: a malformed row lacks columns[5]
ColumnsOf(bad, j) == IF j \in bad THEN RequiredColumns - 1 ELSE RequiredColumns

Min(a, b) == IF a < b THEN a ELSE b

\* variant of CapElements without the slice
CapElementsUncapped(tm, n) == n

\* elements = elements[:5] in test mode
CapElements(tm, n) == IF tm THEN Min(n, TestRowCap) ELSE n

\* variant of RetryLoopRuns that keeps retrying after a non-empty result
RetryLoopIgnoresResults(rc, res) == rc < max_retries

\* loop condition of the retry loop
RetryLoopRuns(rc, res) == rc < max_retries /\ res = <<>>

\* variant of CeilingReached that stops one page late
CeilingOffByOne(tm, p) == tm /\ p > TestPageCeiling

\* exit condition checked before the next-page step
CeilingReached(tm, p) == tm /\ p >= TestPageCeiling

(* ---- initial state: FIPSParser constructed, browser on a blank page --- *)
Init ==
  /\ pc = "start"
  /\ \E cfg \in Configs :
       /\ test_mode = cfg.test_mode
       /\ status_options = cfg.status_options
  /\ cat_boxes \in [CatBoxes -> BOOLEAN]
  /\ status_boxes = NoStatusBoxes
  /\ handles = <<MainWin>>
  /\ active = MainWin
  /\ more = FALSE
  /\ page_rows = 0
  /\ page = 1
  /\ all_results = <<>>
  /\ retry_count = 0
  /\ results = <<>>
  /\ elements = 0
  /\ idx = 0
  /\ details = "none"
  /\ nav_ret = FALSE
  /\ csv = <<>>
  /\ xlsx = <<>>
  /\ raise_cause = "none"
  /\ deviations = 0
  /\ next_clicks = 0
  /\ consulted = {}
  /\ steady = TRUE
  /\ fetches = 0
  /\ timeouts = {}
  /\ malformed = {}
  /\ parse_calls = NoCalls
  /\ total_fetches = 0
  /\ record = EmptyRecord
  /\ view = NoView
  /\ paragraphs = 0
  /\ written = <<>>
  /\ detail_calls = NoCalls
  /\ last = NoOp

(* ---- start_search: open the start page -------------------------------- *)
StartSearch ==
  /\ pc = "start"
  /\ \E g \in {"ok", "raise"} :
       /\ pc' = IF g = "ok" THEN "options" ELSE "raised"
       /\ raise_cause' = IF g = "ok" THEN "none" ELSE "get"
  /\ last' = [op |-> "get"]
  /\ UNCHANGED <<test_mode,
                 malformed, parse_calls, detail_calls, total_fetches, record, view, paragraphs, written, status_options, cat_boxes, status_boxes, handles,
                 active, more, page_rows, page, all_results, retry_count, results,
                 elements, idx, details, nav_ret, csv, xlsx, deviations,
                 next_clicks, consulted, steady, fetches, timeouts>>

\* _select_search_options; on success the search form page replaces the
\* start page.  A fresh session gets the form with no status checkbox
\* ticked (SpecFilters runs the status pass from every checkbox state).
SelectSearchOptions ==
  /\ pc = "options"
  /\ \E e \in SelectEnvs :
       LET r == SelectSearchOptionsRun(cat_boxes, e)
       IN /\ last' = [op |-> "select_search_options", pre |-> cat_boxes,
                      post |-> r.boxes, events |-> r.events,
                      raised |-> r.raised, error |-> r.error]
          /\ raise_cause' = r.raised
          /\ IF r.raised = "none"
               THEN /\ pc' = "form"
                    /\ cat_boxes' = NoCatBoxes
               ELSE /\ pc' = "raised"
                    /\ cat_boxes' = r.boxes
          /\ status_boxes' = NoStatusBoxes
  /\ UNCHANGED <<test_mode,
                 malformed, parse_calls, detail_calls, total_fetches, record, view, paragraphs, written, status_options, handles, active, more, page_rows, page,
                 all_results, retry_count, results, elements, idx, details,
                 nav_ret, csv, xlsx, deviations, next_clicks, consulted,
                 steady, fetches, timeouts>>

\* _fill_search_form followed by wait_for_page_load; on success the first
\* result page replaces the form page (with or without a further page, with
\* the site's page size, and with the rows of it that lack a column)
FillSearchForm ==
  /\ pc = "form"
  /\ \E e \in FormEnvs :
       LET r == FillSearchFormRun(status_boxes, status_options, e)
       IN /\ last' = [op |-> "fill_search_form", pre |-> status_boxes,
                      post |-> r.boxes, events |-> r.events,
                      raised |-> r.raised]
          /\ raise_cause' = r.raised
          /\ IF r.raised = "none"
               THEN /\ pc' = "collect"
                    /\ status_boxes' = NoStatusBoxes
                    /\ \E m \in BOOLEAN : more' = (m /\ 1 < MaxPages)
                    /\ \E n \in 1..MaxRows, bad \in SUBSET (1..MaxRows) :
                         /\ bad \subseteq 1..n
                         /\ deviations + Count(bad) <= MaxDeviations
                         /\ deviations' = deviations + Count(bad)
                         /\ malformed' = bad
                         /\ page_rows' = n
               ELSE /\ pc' = "raised"
                    /\ status_boxes' = r.boxes
                    /\ UNCHANGED <<more, deviations, malformed, page_rows>>
  /\ UNCHANGED <<test_mode, parse_calls, detail_calls, total_fetches, record, view, paragraphs, written,
                 status_options, cat_boxes, handles, active, page,
                 all_results, retry_count, results, elements, idx, details,
                 nav_ret, csv, xlsx, next_clicks, consulted,
                 steady, fetches, timeouts>>

(* ---- collect_all_results ---------------------------------------------- *)
\* page = 1, all_results = [], and the head of the first loop iteration
BeginCollect ==
  /\ pc = "collect"
  /\ pc' = "fetch"
  /\ page' = 1
  /\ all_results' = <<>>
  /\ retry_count' = 0
  /\ results' = <<>>
  /\ fetches' = 0
  /\ last' = NoOp
  /\ UNCHANGED <<test_mode,
                 malformed, parse_calls, detail_calls, total_fetches, record, view, paragraphs, written, status_options, cat_boxes, status_boxes, handles,
                 active, more, page_rows, elements, idx, details, nav_ret, csv, xlsx,
                 raise_cause, deviations, next_clicks, consulted, steady, timeouts>>

\* what the wait for a row element and find_elements can give
FetchOutcomes == {"timeout", "find_raise", "empty", "rows"}

\* one pass of the retry loop enters _parse_search_results: the wait for
\* a row times out, find_elements raises or finds nothing (the attempt is
\* over, retry_count += 1), or n row elements are captured
FetchResults ==
  /\ pc = "fetch"
  /\ RetryLoopRuns(retry_count, results)
  /\ fetches' = fetches + 1
  /\ total_fetches' = total_fetches + 1
  /\ \E o \in FetchOutcomes :
       /\ last' = [op |-> "parse_search_results",
                   captured |-> o = "rows" /\ OnResults(handles, active)]
       /\ IF o = "rows" /\ OnResults(handles, active)
            THEN /\ pc' = "row"
                 /\ elements' = CapElements(test_mode, page_rows)
                 /\ idx' = 1
                 /\ retry_count' = retry_count
            ELSE /\ pc' = "fetch"
                 /\ elements' = 0
                 /\ idx' = 0
                 /\ retry_count' = retry_count + 1
  /\ results' = <<>>
  /\ UNCHANGED <<test_mode, malformed, parse_calls, detail_calls, record, view, paragraphs, written, status_options, cat_boxes, status_boxes, handles,
                 active, more, page_rows, page, all_results, details, nav_ret, csv, xlsx,
                 raise_cause, deviations, next_clicks, consulted, steady, timeouts>>

\* for element in elements: patent = self._parse_patent_element(element)
ParsePatentElement ==
  /\ pc = "row"
  /\ idx <= elements
  /\ LET onres == OnResults(handles, active)
         cols == ColumnsOf(malformed, idx)
     IN /\ parse_calls' = [parse_calls EXCEPT ![idx] = @ + 1]
        /\ last' = [op |-> "parse_patent_element", row |-> <<page, idx>>,
                    cols |-> cols]
        /\ IF ParsePatentElementRun(onres, cols)
             THEN /\ results' = Append(results, <<page, idx>>)
                  /\ pc' = "detail"
                  /\ idx' = idx
             ELSE /\ results' = results
                  /\ pc' = "row"
                  /\ idx' = idx + 1
  /\ UNCHANGED <<test_mode, malformed, detail_calls, total_fetches, record,
                 view, paragraphs, written, status_options, cat_boxes, status_boxes, handles,
                 active, more, page_rows, page, all_results, retry_count, elements,
                 details, nav_ret, csv, xlsx, raise_cause, deviations, next_clicks,
                 consulted, steady, fetches, timeouts>>

\* the detail window was opened and switched to, and the wait for StatusR
\* or bib ran into its timeout
DetailTimedOut(h, a, e) ==
  Alive(h, a) /\ e.open = "ok" /\ e.sw = "ok" /\ e.wait = "timeout"

\* details = self._get_patent_details(patent.link_id)
GetPatentDetails ==
  /\ pc = "detail"
  /\ \E e \in DetailEnvs :
       LET r == GetPatentDetailsRun(handles, active, e)
       IN /\ deviations + r.dev <= MaxDeviations
          /\ deviations' = deviations + r.dev
          /\ handles' = r.handles
          /\ active' = r.active
          /\ details' = r.details
          /\ detail_calls' = [detail_calls EXCEPT ![idx] = @ + 1]
          /\ timeouts' = IF DetailTimedOut(handles, active, e)
                            THEN timeouts \cup {<<page, idx>>} ELSE timeouts
          /\ last' = [op |-> "get_patent_details", row |-> <<page, idx>>,
                      main_before |-> OnResults(handles, active),
                      opened |-> Alive(handles, active) /\ e.open = "ok",
                      timed_out |-> DetailTimedOut(handles, active, e),
                      ret |-> r.details]
  /\ pc' = "save"
  /\ UNCHANGED <<test_mode,
                 malformed, parse_calls, total_fetches, record, view, paragraphs, written, status_options, cat_boxes, status_boxes, more, page_rows,
                 page, all_results, retry_count, results, elements, idx,
                 nav_ret, csv, xlsx, raise_cause, next_clicks, consulted,
                 steady, fetches>>

\* variant of SaveRowRun without the except branch of the for-loop: a sink
\* exception leaves _parse_search_results
SaveRowNoHandler(full, x, c) ==
  [xlsx |-> full /\ x = "ok",
   csv |-> full /\ x = "ok" /\ c = "ok",
   failed |-> full /\ (x = "raise" \/ c = "raise"),
   escaped |-> full /\ (x = "raise" \/ c = "raise")]

\* variant of SaveRowRun that appends the CSV line before it writes the
\* detail workbook
SaveRowCsvFirst(full, x, c) ==
  [xlsx |-> full /\ c = "ok" /\ x = "ok",
   csv |-> full /\ c = "ok",
   failed |-> full /\ (x = "raise" \/ c = "raise"),
   escaped |-> FALSE]

\* if details: save_patent_details, then save_patent_to_csv; an exception
\* of either call ends the row in the except branch of the for-loop
SaveRowRun(full, x, c) ==
  [xlsx |-> full /\ x = "ok",
   csv |-> full /\ x = "ok" /\ c = "ok",
   failed |-> full /\ (x = "raise" \/ c = "raise"),
   escaped |-> FALSE]

\* the rest of one pass of the for-loop; an exception that left
\* _parse_search_results would end the attempt in collect_all_results
SaveRow ==
  /\ pc = "save"
  /\ \E x \in {"ok", "raise"}, c \in {"ok", "raise"} :
       LET row == <<page, idx>>
           full == details = "full"
           r == SaveRowRun(full, x, c)
           dev == IF r.failed THEN 1 ELSE 0
       IN /\ (~full => x = "ok")
          /\ ((~full \/ x = "raise") => c = "ok")
          /\ deviations + dev <= MaxDeviations
          /\ deviations' = deviations + dev
          /\ xlsx' = IF r.xlsx THEN Append(xlsx, row) ELSE xlsx
          /\ csv' = IF r.csv THEN Append(csv, row) ELSE csv
          /\ last' = [op |-> "save", row |-> row, details |-> details,
                      sink_failed |-> r.failed, escaped |-> r.escaped]
          /\ IF r.escaped
               THEN /\ pc' = "fetch"
                    /\ results' = <<>>
                    /\ retry_count' = retry_count + 1
                    /\ elements' = 0
                    /\ idx' = 0
               ELSE /\ pc' = "row"
                    /\ idx' = idx + 1
                    /\ UNCHANGED <<results, retry_count, elements>>
  /\ details' = "none"
  /\ UNCHANGED <<test_mode, malformed, parse_calls, detail_calls, total_fetches, record, view,
                 paragraphs, written, status_options, cat_boxes, status_boxes, handles,
                 active, more, page_rows, page, all_results,
                 nav_ret, raise_cause, next_clicks, consulted,
                 steady, fetches, timeouts>>

\* the for-loop is over: _parse_search_results returns, retry_count += 1
ReturnResults ==
  /\ pc = "row"
  /\ idx > elements
  /\ pc' = "fetch"
  /\ retry_count' = retry_count + 1
  /\ elements' = 0
  /\ idx' = 0
  /\ last' = [op |-> "return_results", count |-> Len(results)]
  /\ UNCHANGED <<test_mode,
                 malformed, parse_calls, detail_calls, total_fetches, record, view, paragraphs, written, status_options, cat_boxes, status_boxes, handles,
                 active, more, page_rows, page, all_results, results, details, nav_ret,
                 csv, xlsx, raise_cause, deviations, next_clicks, consulted,
                 steady, fetches, timeouts>>

\* the retry loop is over: extend all_results, then the exit condition
ExtendResults ==
  /\ pc = "fetch"
  /\ ~RetryLoopRuns(retry_count, results)
  /\ all_results' = all_results \o results
  /\ pc' = IF CeilingReached(test_mode, page) THEN "done" ELSE "nav"
  /\ last' = [op |-> "extend", count |-> Len(results)]
  /\ UNCHANGED <<test_mode,
                 malformed, parse_calls, detail_calls, total_fetches, record, view, paragraphs, written, status_options, cat_boxes, status_boxes, handles,
                 active, more, page_rows, page, retry_count, results, elements, idx,
                 details, nav_ret, csv, xlsx, raise_cause, deviations,
                 next_clicks, consulted, steady, fetches, timeouts>>

\* self._go_to_next_page(); a successful click loads the next result page
GoToNextPage ==
  /\ pc = "nav"
  /\ \E m \in MarkupsFor(more), e \in NavEnvs :
       LET r == GoToNextPageRun(OnResults(handles, active), m, e)
       IN /\ nav_ret' = r.ret
          /\ last' = r
          /\ next_clicks' = next_clicks + (IF r.clicked THEN 1 ELSE 0)
          /\ steady' = (steady /\ r.ret)
          /\ IF r.ret
               THEN /\ \E m2 \in BOOLEAN :
                         more' = (m2 /\ page + 1 < MaxPages)
                    /\ \E bad \in SUBSET (1..page_rows) :
                         /\ deviations + Count(bad) <= MaxDeviations
                         /\ deviations' = deviations + Count(bad)
                         /\ malformed' = bad
                    /\ parse_calls' = NoCalls
                    /\ detail_calls' = NoCalls
               ELSE UNCHANGED <<more, deviations, malformed, parse_calls, detail_calls>>
  /\ consulted' = consulted \cup {page}
  /\ pc' = "advance"
  /\ UNCHANGED <<test_mode, total_fetches, record, view, paragraphs, written,
                 status_options, cat_boxes, status_boxes, handles,
                 active, page_rows, page, all_results, retry_count, results, elements,
                 idx, details, csv, xlsx, raise_cause, fetches, timeouts>>

\* if not self._go_to_next_page(): break / page += 1 and the next iteration
AdvancePage ==
  /\ pc = "advance"
  /\ IF nav_ret
       THEN /\ pc' = "fetch"
            /\ page' = page + 1
            /\ retry_count' = 0
            /\ results' = <<>>
            /\ fetches' = 0
       ELSE /\ pc' = "done"
            /\ UNCHANGED <<page, retry_count, results, fetches>>
  /\ UNCHANGED <<test_mode,
                 malformed, parse_calls, detail_calls, total_fetches, record, view, paragraphs, written, status_options, cat_boxes, status_boxes, handles,
                 active, more, page_rows, all_results, elements, idx, details, nav_ret,
                 csv, xlsx, raise_cause, deviations, next_clicks, consulted,
                 steady, last, timeouts>>

Next ==
  \/ StartSearch
  \/ SelectSearchOptions
  \/ FillSearchForm
  \/ BeginCollect
  \/ FetchResults
  \/ ParsePatentElement
  \/ GetPatentDetails
  \/ SaveRow
  \/ ReturnResults
  \/ ExtendResults
  \/ GoToNextPage
  \/ AdvancePage

Spec == Init /\ [][Next]_vars

\* the program is one thread and every call into the browser returns or
\* raises within its timeout, so a step that can be taken is taken
FairSpec == Spec /\ WF_vars(Next)

TypeOK ==
  /\ pc \in {"start", "options", "form", "collect", "fetch", "row", "detail",
             "save", "nav", "advance", "done", "raised"}
  /\ page \in 1..MaxPages
  /\ retry_count \in 0..max_retries

(* ---- collect_all_results on a long page -------------------------------- *)
\* the search form was submitted and the site shows its only result page,
\* which may have more than TestRowCap rows; one of them may lack a column
InitPage ==
  /\ pc = "collect"
  /\ \E cfg \in Configs :
       /\ test_mode = cfg.test_mode
       /\ status_options = cfg.status_options
  /\ cat_boxes = NoCatBoxes
  /\ status_boxes = NoStatusBoxes
  /\ handles = <<MainWin>>
  /\ active = MainWin
  /\ more = FALSE
  /\ page_rows \in 1..MaxLongPage
  /\ page = 1
  /\ all_results = <<>>
  /\ retry_count = 0
  /\ results = <<>>
  /\ elements = 0
  /\ idx = 0
  /\ details = "none"
  /\ nav_ret = FALSE
  /\ csv = <<>>
  /\ xlsx = <<>>
  /\ raise_cause = "none"
  /\ malformed \in {bad \in SUBSET (1..page_rows) :
                      Count(bad) <= MaxDeviations}
  /\ deviations = Count(malformed)
  /\ next_clicks = 0
  /\ consulted = {}
  /\ steady = TRUE
  /\ fetches = 0
  /\ timeouts = {}
  /\ parse_calls = NoCalls
  /\ total_fetches = 0
  /\ record = EmptyRecord
  /\ view = NoView
  /\ paragraphs = 0
  /\ written = <<>>
  /\ detail_calls = NoCalls
  /\ last = NoOp

NextCollect ==
  \/ BeginCollect
  \/ FetchResults
  \/ ParsePatentElement
  \/ GetPatentDetails
  \/ SaveRow
  \/ ReturnResults
  \/ ExtendResults
  \/ GoToNextPage
  \/ AdvancePage

SpecPage == InitPage /\ [][NextCollect]_vars

(* ---- the status-filter pass on its own -------------------------------- *)
\* _set_status_filters run from every checkbox state with every
\* StatusOptions value, and run again on the page it leaves behind
InitFilters ==
  /\ pc = "filters"
  /\ test_mode = FALSE
  /\ status_options \in [StatusKeys -> BOOLEAN]
  /\ cat_boxes = NoCatBoxes
  /\ status_boxes \in [StatusKeys -> BOOLEAN]
  /\ handles = <<MainWin>>
  /\ active = MainWin
  /\ more = FALSE
  /\ page_rows = 0
  /\ page = 1
  /\ all_results = <<>>
  /\ retry_count = 0
  /\ results = <<>>
  /\ elements = 0
  /\ idx = 0
  /\ details = "none"
  /\ nav_ret = FALSE
  /\ csv = <<>>
  /\ xlsx = <<>>
  /\ raise_cause = "none"
  /\ deviations = 0
  /\ next_clicks = 0
  /\ consulted = {}
  /\ steady = TRUE
  /\ fetches = 0
  /\ timeouts = {}
  /\ malformed = {}
  /\ parse_calls = NoCalls
  /\ total_fetches = 0
  /\ record = EmptyRecord
  /\ view = NoView
  /\ paragraphs = 0
  /\ written = <<>>
  /\ detail_calls = NoCalls
  /\ last = NoOp

\* how many times the pass ran so far
Applications == IF last.op = "set_status_filters" THEN last.n ELSE 0

\* what the pass met at each checkbox: a click that is not issued cannot
\* fail
ConsultedOutcomes(boxes, opts, env) ==
  [k \in StatusKeys |->
     IF env[k] = "clickfail" /\ boxes[k] = opts[k] THEN "ok" ELSE env[k]]

SetStatusFilters ==
  /\ pc = "filters"
  /\ Applications < MaxApplications
  /\ \E env \in StatusEnvs :
       LET r == SetStatusFiltersRun(status_boxes, status_options, env)
       IN /\ status_boxes' = r.boxes
          /\ last' = [op |-> "set_status_filters", n |-> Applications + 1,
                      pre |-> status_boxes, post |-> r.boxes,
                      events |-> r.events,
                      env |-> ConsultedOutcomes(status_boxes, status_options,
                                                env),
                      clean |-> env = AllBoxesOk,
                      prev_clean |-> Applications > 0 /\ last.clean,
                      prev_clicks |-> IF Applications = 0 THEN 0
                                      ELSE Clicks(last.events)]
  /\ UNCHANGED <<pc, test_mode,
                 malformed, parse_calls, detail_calls, total_fetches, record, view, paragraphs, written, status_options, cat_boxes, handles, active,
                 more, page_rows, page, all_results, retry_count, results,
                 elements, idx, details, nav_ret, csv, xlsx, raise_cause,
                 deviations, next_clicks, consulted, steady, fetches, timeouts>>

NextFilters == SetStatusFilters

SpecFilters == InitFilters /\ [][NextFilters]_vars

(* ---- detail extraction on its own ------------------------------------- *)
\* A text is a sequence of tokens: a word, a colon, a blank.  The two words
\* are the label the synthesized identifier is stored under and the label
\* the title is stored under.
Alphabet == {"Dokument", "(54) Nazvanie", ":", " "}

\* texts a <p> element of the bib table may hold
Texts == UNION {[1..n -> Alphabet] : n \in 0..MaxTextLen}

\* keys the fixed-position fields are stored under
KeyStatus == <<"Status">>
KeyFee == <<"Poshlina">>
KeyLink == <<"Ssylka">>
KeyDocument == <<"Dokument">>
KeyIpc == <<"MPK">>
KeySpk == <<"SPK">>
KeyTitle == <<"(54) Nazvanie">>
\* the text of the <b> of NameDoc, and the fallback value
DocName == <<"OPISANIE">>
DocNameFallback == <<"OPISANIE ???">>

RECURSIVE LStrip(_)
LStrip(t) ==
  IF t = <<>> THEN t
  ELSE IF Head(t) = " " THEN LStrip(Tail(t)) ELSE t

RECURSIVE RStrip(_)
RStrip(t) ==
  IF t = <<>> THEN t
  ELSE IF t[Len(t)] = " " THEN RStrip(SubSeq(t, 1, Len(t) - 1)) ELSE t

\* str.strip()
Strip(t) == RStrip(LStrip(t))

RECURSIVE Find(_, _, _)
\* index of the first token c of t at or after i, 0 if there is none
Find(t, c, i) ==
  IF i > Len(t) THEN 0
  ELSE IF t[i] = c THEN i ELSE Find(t, c, i + 1)

\* text.split(c, 1)
SplitOnce(t, c) ==
  LET k == Find(t, c, 1)
  IN IF k = 0 THEN <<t>>
     ELSE <<SubSeq(t, 1, k - 1), SubSeq(t, k + 1, Len(t))>>

\* variant of Put that keeps the value of a key the dict already holds
PutIfAbsent(rec, key, value) ==
  [x \in DOMAIN rec \cup {key} |-> IF x \in DOMAIN rec THEN rec[x] ELSE value]

\* details[key] = value
Put(rec, key, value) ==
  [x \in DOMAIN rec \cup {key} |-> IF x = key THEN value ELSE rec[x]]

\* what a <p> element gives: get_attribute("textContent") or an exception
Paragraphs == [read : {"ok"}, text : Texts] \cup
              {[read |-> "raise", text |-> <<>>]}

\* variant of ProcessParagraph that splits on every colon and keeps the
\* first two parts
ProcessParagraphSplitsAll(rec, p) ==
  IF p.read = "raise" THEN rec
  ELSE LET text == Strip(p.text)
           parts == SplitOnce(text, ":")
       IN IF text = <<>> THEN rec
          ELSE IF Len(parts) > 1
            THEN Put(rec, Strip(parts[1]),
                     Strip(SplitOnce(parts[2], ":")[1]))
          ELSE Put(rec, text, <<>>)

\* _process_paragraph
ProcessParagraph(rec, p) ==
  IF p.read = "raise" THEN rec
  ELSE LET text == Strip(p.text)
           parts == SplitOnce(text, ":")
       IN IF text = <<>> THEN rec
          ELSE IF Len(parts) > 1
            THEN Put(rec, Strip(parts[1]), Strip(parts[2]))
          ELSE Put(rec, text, <<>>)

\* what _process_paragraph assigns for the <p> element p: nothing when the
\* read raises or the text is blank, else the one entry label -> value
ParagraphWrites(p) ==
  LET text == Strip(p.text)
      parts == SplitOnce(text, ":")
  IN IF p.read = "raise" \/ text = <<>> THEN <<>>
     ELSE IF Len(parts) > 1 THEN <<<<Strip(parts[1]), Strip(parts[2])>>>>
     ELSE <<<<text, <<>>>>>>

\* detail pages: whether NameDoc is there, the StatusR elements, the header
\* (its lookups raise or give country code, number and kind code), the
\* ul.ipc entries, the spk div
Views ==
  [loaded : {TRUE}, name : {"found", "raise"}, status : 0..2,
   header : {"ok", "raise"}, country : {<<"RU">>},
   number : {<<"2820873">>}, kind : {<<"C1">>, <<"U1">>},
   ipc : 0..1, spk : BOOLEAN]

\* f"{country_code} (11) {number} (13) {kind_code}"
ComposeDocument(country, number, kind) ==
  country \o <<" (11) ">> \o number \o <<" (13) ">> \o kind

\* variant of ExtractHead that stores the fee only if a second StatusR
\* element exists
ExtractHeadFeeIfPresent(v) ==
  LET name == IF v.name = "found" THEN DocName ELSE DocNameFallback
      st == IF v.status >= 1 THEN <<"status text">> ELSE <<>>
      r1 == Put(Put(EmptyRecord, name, <<>>), KeyStatus, st)
      r2 == IF v.status >= 2 THEN Put(r1, KeyFee, <<"fee text">>) ELSE r1
      r3 == Put(r2, KeyLink, <<"url">> \o v.number)
      r4 == Put(r3, KeyDocument, ComposeDocument(v.country, v.number, v.kind))
      r5 == IF v.ipc > 0 THEN Put(r4, KeyIpc, <<"ipc (date)">>) ELSE r4
  IN IF v.spk THEN Put(r5, KeySpk, <<"spk text">>) ELSE r5

\* lines 248-274 on a page whose header can be read: document name, status,
\* fee, link, synthesized identifier, IPC codes, SPK
ExtractHead(v) ==
  LET name == IF v.name = "found" THEN DocName ELSE DocNameFallback
      st == IF v.status >= 1 THEN <<"status text">> ELSE <<>>
      fee == IF v.status >= 2 THEN <<"fee text">> ELSE <<>>
      r1 == Put(Put(EmptyRecord, name, <<>>), KeyStatus, st)
      r2 == Put(r1, KeyFee, fee)
      r3 == Put(r2, KeyLink, <<"url">> \o v.number)
      r4 == Put(r3, KeyDocument, ComposeDocument(v.country, v.number, v.kind))
      r5 == IF v.ipc > 0 THEN Put(r4, KeyIpc, <<"ipc (date)">>) ELSE r4
  IN IF v.spk THEN Put(r5, KeySpk, <<"spk text">>) ELSE r5

\* number of fields of PatentHeader, all of them required, and number of
\* arguments the except branch of _extract_patent_header passes
HeaderFields == 5
HeaderFallbackArgs == 4

\* _extract_patent_header: the header parts when every lookup goes through;
\* when a lookup raises, the except branch builds PatentHeader("", "", "",
\* []), which lacks a required argument, so that TypeError leaves the method
ExtractPatentHeaderRun(v) ==
  IF v.header = "ok"
    THEN [raised |-> FALSE, error |-> "none", country |-> v.country,
          number |-> v.number, kind |-> v.kind]
  ELSE IF HeaderFallbackArgs = HeaderFields
    THEN [raised |-> FALSE, error |-> "none", country |-> <<>>,
          number |-> <<>>, kind |-> <<>>]
  ELSE [raised |-> TRUE, error |-> "TypeError", country |-> <<>>,
        number |-> <<>>, kind |-> <<>>]

\* what the B542 element gives: its text, or an exception
Titles ==
  [read : {"ok"}, text : {<<"(54)", " ", "title">>, <<"title">>}] \cup
  {[read |-> "raise", text |-> <<>>]}

\* the title block was not reached
NoTitle == [read |-> "none", text |-> <<>>]

\* title_text.split("(54)")[1].strip()
TitleOf(t) == Strip(SplitOnce(SplitOnce(t, "(54)")[2], "(54)")[1])

\* the driver has switched to a detail window that shows one of the pages
InitDetails ==
  /\ pc = "detail_wait"
  /\ test_mode = FALSE
  /\ status_options = DefaultStatusOptions
  /\ cat_boxes = NoCatBoxes
  /\ status_boxes = NoStatusBoxes
  /\ handles = <<MainWin, 1>>
  /\ active = 1
  /\ more = FALSE
  /\ page_rows = 1
  /\ page = 1
  /\ all_results = <<>>
  /\ retry_count = 0
  /\ results = <<<<1, 1>>>>
  /\ elements = 1
  /\ idx = 1
  /\ details = "none"
  /\ nav_ret = FALSE
  /\ csv = <<>>
  /\ xlsx = <<>>
  /\ raise_cause = "none"
  /\ deviations = 0
  /\ next_clicks = 0
  /\ consulted = {}
  /\ steady = TRUE
  /\ fetches = 1
  /\ timeouts = {}
  /\ malformed = {}
  /\ parse_calls = [NoCalls EXCEPT ![1] = 1]
  /\ total_fetches = 1
  /\ record = EmptyRecord
  /\ view \in Views
  /\ paragraphs = 0
  /\ written = <<>>
  /\ detail_calls = [NoCalls EXCEPT ![1] = 1]
  /\ last = NoOp

\* a cleanup in which close and switch_to.window go through
CleanupOk == [hclose |-> "ok", hback |-> "ok"]

\* the except branch of _get_patent_details: the detail window is closed,
\* the driver is back on window_handles[0], and {} is returned (cleanups
\* that fail are part of Spec)
ReturnEmpty(cause) ==
  /\ pc' = "detail_returned"
  /\ handles' = HandleFailedDetailExtraction(handles, active, CleanupOk,
                                             0).handles
  /\ active' = HandleFailedDetailExtraction(handles, active, CleanupOk,
                                            0).active
  /\ record' = EmptyRecord
  /\ details' = "empty"
  /\ paragraphs' = 0
  /\ written' = <<>>
  /\ last' = [op |-> "get_patent_details", raised |-> TRUE, cause |-> cause,
              title |-> NoTitle]

\* wait_for_element("StatusR"), wait_for_element("bib")
WaitForDetail ==
  /\ pc = "detail_wait"
  /\ \E w \in {"ready", "timeout"} :
       IF w = "timeout"
         THEN ReturnEmpty("wait")
         ELSE /\ pc' = "detail_head"
              /\ last' = [op |-> "wait_for_element"]
              /\ UNCHANGED <<record, details, paragraphs, written, handles,
                             active>>
  /\ UNCHANGED <<test_mode, status_options, cat_boxes, status_boxes, more, page_rows, page, all_results, retry_count,
                 results, elements, idx, nav_ret, csv, xlsx, raise_cause,
                 deviations, next_clicks, consulted, steady, fetches,
                 timeouts, malformed, parse_calls, detail_calls, total_fetches, view>>

\* _extract_patent_details up to the bib table: the fixed-position fields,
\* then find_element(By.ID, "bib") and its <p> elements.  A header lookup
\* that raises ends in PatentHeader("", "", "", []), which lacks an
\* argument and raises TypeError out of the except branch.
ExtractFixedFields ==
  /\ pc = "detail_head"
  /\ IF ExtractPatentHeaderRun(view).raised
       THEN ReturnEmpty("header")
       ELSE \E bib \in {"found", "raise"}, n \in 0..MaxParagraphs :
              /\ (bib = "raise" => n = 0)
              /\ IF bib = "raise"
                   THEN ReturnEmpty("bib")
                   ELSE /\ pc' = "detail_par"
                        /\ record' = ExtractHead(view)
                        /\ paragraphs' = n
                        /\ written' = <<>>
                        /\ last' = [op |-> "extract_head"]
                        /\ UNCHANGED <<details, handles, active>>
  /\ UNCHANGED <<test_mode, status_options, cat_boxes, status_boxes, more, page_rows, page, all_results, retry_count,
                 results, elements, idx, nav_ret, csv, xlsx, raise_cause,
                 deviations, next_clicks, consulted, steady, fetches,
                 timeouts, malformed, parse_calls, detail_calls, total_fetches, view>>

\* one pass of: for paragraph in bib_table.find_elements(By.TAG_NAME, "p")
ProcessParagraphStep ==
  /\ pc = "detail_par"
  /\ paragraphs > 0
  /\ \E p \in Paragraphs :
       /\ record' = ProcessParagraph(record, p)
       /\ written' = written \o ParagraphWrites(p)
       /\ last' = [op |-> "process_paragraph", pre |-> record, p |-> p]
  /\ paragraphs' = paragraphs - 1
  /\ UNCHANGED <<pc, test_mode, status_options, cat_boxes, status_boxes,
                 handles, active, more, page_rows, page, all_results,
                 retry_count, results, elements, idx, details, nav_ret, csv,
                 xlsx, raise_cause, deviations, next_clicks, consulted,
                 steady, fetches, timeouts, malformed, parse_calls, detail_calls,
                 total_fetches, view>>

\* the B542 title, return details; then close the tab and switch back,
\* where an exception still ends in the except branch
ExtractTitle ==
  /\ pc = "detail_par"
  /\ paragraphs = 0
  /\ \E t \in Titles, c \in {"ok", "raise"} :
       /\ (c = "raise" => t.read = "raise")
       /\ IF c = "raise"
            THEN ReturnEmpty("close")
            ELSE /\ pc' = "detail_returned"
                 /\ record' = IF t.read = "ok" /\ Find(t.text, "(54)", 1) > 0
                                THEN Put(record, KeyTitle, TitleOf(t.text))
                                ELSE record
                 /\ details' = "full"
                 /\ paragraphs' = 0
                 /\ written' = written
                 /\ handles' = CloseWin(handles, active)
                 /\ active' = CloseWin(handles, active)[1]
                 /\ last' = [op |-> "get_patent_details", raised |-> FALSE,
                             cause |-> "none", title |-> t]
  /\ UNCHANGED <<test_mode, status_options, cat_boxes, status_boxes, more, page_rows, page, all_results, retry_count,
                 results, elements, idx, nav_ret, csv, xlsx, raise_cause,
                 deviations, next_clicks, consulted, steady, fetches,
                 timeouts, malformed, parse_calls, detail_calls, total_fetches, view>>

NextDetails ==
  \/ WaitForDetail
  \/ ExtractFixedFields
  \/ ProcessParagraphStep
  \/ ExtractTitle

SpecDetails == InitDetails /\ [][NextDetails]_vars

(* ======================================================================= *)
(* Claims                                                                  *)
(* ======================================================================= *)

\* C1: the page counter is incremented only after _go_to_next_page returned
\* True, and it returns True only after a next-page control was found, was
\* not flagged disabled, carried an action binding, and was clicked; when
\* the control reports disabled the loop ends with the page counter
\* unchanged and without a click on the control.
C1_CursorAdvancesOnlyWhenConfirmed ==
  /\ [](pc = "advance" /\ nav_ret
          => /\ last.op = "go_to_next_page"
             /\ last.found /\ ~last.disabled /\ last.actionable
             /\ last.clicked)
  /\ [](pc = "advance" /\ last.disabled => ~nav_ret /\ ~last.clicked)
  /\ [][page' # page => pc = "advance" /\ nav_ret /\ page' = page + 1]_vars
  /\ [][pc = "advance" /\ last.disabled
          => pc' = "done" /\ page' = page /\ next_clicks' = next_clicks]_vars

\* a run that advanced to page 2 after one click and ended there on a
\* control reporting disabled
C1_Witness ==
  /\ pc = "done" /\ page = 2 /\ next_clicks = 1
  /\ last.op = "go_to_next_page" /\ last.disabled

\* C2: after every call of _get_patent_details, successful or not, the
\* active window of the session is the original main results window.
C2_ActiveWindowIsMain ==
  pc = "save" => (active = MainWin /\ MainWin \in Range(handles))

\* C3: when collect_all_results returns the main window is open and no
\* detail window is left open, and between two consecutive rows the set of
\* open windows is exactly the main window.
C3_WindowsConsistent ==
  /\ pc = "done" => Range(handles) = {MainWin}
  /\ pc = "row" => Range(handles) = {MainWin}

\* rows of page p the for-loop goes through
RowsOfPage(p) == {<<p, j>> : j \in 1..CapElements(test_mode, page_rows)}

\* C4: when the detail view of one row does not become ready within the
\* wait timeout (and nothing else fails in the row loop) the run goes on:
\* the session is back on the main window right after the failed call,
\* every row of that page, the failing one included, is in the returned
\* list, and every other row of the page has its details extracted and
\* stored.
C4_TimeoutIsolated ==
  /\ (pc = "save" /\ last.timed_out /\ deviations = 1)
       => /\ handles = <<MainWin>> /\ active = MainWin
          /\ details = "empty"
          /\ last.row \in Range(results)
  /\ (pc = "done" /\ deviations = 1 /\ timeouts # {})
       => \A t \in timeouts : \A r \in RowsOfPage(t[1]) :
            /\ r \in Range(all_results)
            /\ r \notin timeouts => (r \in Range(xlsx) /\ r \in Range(csv))

\* the first row of page 1 timed out, the run is over, the row is in the
\* returned list and the row after it was stored with its details
C4_Witness ==
  /\ pc = "done" /\ timeouts = {<<1, 1>>}
  /\ <<1, 1>> \in Range(all_results)
  /\ <<1, 2>> \in Range(xlsx) /\ <<1, 2>> \in Range(csv)

\* C5: a row for which a ResultRow was produced is appended to the CSV and
\* a detail record (possibly empty) is written for it, also when
\* _get_patent_details failed for the row (sink failures aside).
C5_RowReachesSink ==
  (last.op = "save" /\ ~last.sink_failed)
    => (last.row \in Range(csv) /\ last.row \in Range(xlsx))

\* C6: per page the results fetch is invoked at most max_retries times, a
\* fetch is started only while no attempt has yielded rows, and when all
\* attempts yielded nothing the page contributes no row and the loop goes
\* on to the exit / next-page decision without raising.
C6_BoundedFetchRetries ==
  /\ [](fetches <= max_retries)
  /\ [][fetches' = fetches + 1
          => results = <<>> /\ fetches < max_retries]_vars
  /\ [][pc = "fetch" => pc' \in {"fetch", "row", "nav", "done"}]_vars
  /\ [][(pc = "fetch" /\ pc' \in {"nav", "done"} /\ results = <<>>)
          => fetches = max_retries /\ all_results' = all_results]_vars

\* three fetch attempts of one page yielded nothing and the loop moved on
C6_Witness ==
  pc = "nav" /\ fetches = max_retries /\ results = <<>> /\ all_results = <<>>

\* C7: in test mode, with a next-page control found enabled and actionable
\* at every consultation, the run ends on page 3 after exactly 2 next-page
\* clicks, and the control was consulted on pages 1 and 2 only.
C7_CeilingStopsAtThree ==
  (test_mode /\ pc = "done" /\ steady)
    => /\ page = TestPageCeiling
       /\ next_clicks = TestPageCeiling - 1
       /\ consulted = 1..(TestPageCeiling - 1)
       /\ fetches >= 1

\* a capped run: done on page 3 while the site still offers a next page
C7_Witness ==
  test_mode /\ pc = "done" /\ steady /\ more /\ page = TestPageCeiling

\* C8: the status-filter pass applied to a page whose four status
\* checkboxes already equal the desired StatusOptions clicks nothing and
\* leaves them as they are; an application that follows one in which every
\* checkbox was located and every click went through finds such a page and
\* clicks nothing.
C8_StatusPassIdempotent ==
  /\ (last.op = "set_status_filters" /\ last.pre = status_options)
       => (Clicks(last.events) = 0 /\ last.post = last.pre)
  /\ (last.op = "set_status_filters" /\ last.prev_clean)
       => (last.pre = status_options /\ Clicks(last.events) = 0)

\* a second application without a click, after a first one that clicked
C8_Witness ==
  /\ last.op = "set_status_filters" /\ last.n = 2
  /\ last.prev_clicks > 0 /\ last.prev_clean /\ last.pre = status_options
  /\ Clicks(last.events) = 0

\* a click on one of the category checkboxes
CategoryClicks(ev) ==
  {i \in 1..Len(ev) :
     ev[i][1] = "click" /\ ev[i][2] \in {"category_1", "category_4"}}

\* C9: _select_search_options clicks a category checkbox only when its
\* checked state differs from the desired (ticked) one: on a page whose
\* category checkboxes are already ticked it clicks none of them and
\* leaves their state unchanged.
C9_CategoryToggleOnMismatch ==
  (last.op = "select_search_options" /\ \A c \in CatBoxes : last.pre[c])
    => (CategoryClicks(last.events) = {} /\ last.post = last.pre)

\* C10 as stated: start_search raises only when the browsing session itself
\* is unusable, never because a single UI element could not be located.
C10_OnlySessionFailureRaises ==
  pc = "raised" => raise_cause = "get"

\* causes for which start_search raises
FatalCauses ==
  {"get", "section_header", "search_button", "query_input", "query_fill",
   "submit_button"}

\* C10, amended: start_search raises only when the start page cannot be
\* opened, when neither strategy activates the section header or the search
\* button, when the query input cannot be located or filled, or when the
\* submit button cannot be located or clicked; it raises before the first
\* results fetch, and never because of a category or status checkbox or of
\* anything inside collect_all_results.
C10_RaisesOnlyBeforeCollect ==
  /\ pc = "raised"
       => /\ raise_cause \in FatalCauses
          /\ last.op \in {"get", "select_search_options", "fill_search_form"}
          /\ last.op # "get" => last.raised = raise_cause
          /\ fetches = 0 /\ all_results = <<>>
  /\ pc # "raised" => raise_cause = "none"

\* the query input could not be located and start_search raised
C10_Witness ==
  pc = "raised" /\ raise_cause = "query_input"

(* ---- rows that lack a column ------------------------------------------ *)
\* every row of the page was handed to _parse_patent_element
AllRowsParsed ==
  \A j \in 1..CapElements(test_mode, page_rows) : parse_calls[j] >= 1

\* C11: a row with fewer than the required column containers yields no
\* ResultRow: the call leaves results, the windows and both sinks as they
\* are and the for-loop steps to the next row; such a row is in no result
\* list and in no sink, and when _parse_search_results returns every row of
\* the page has been handed to _parse_patent_element.
C11_MalformedRowSkipped ==
  /\ [][(pc = "row" /\ idx <= elements /\ idx \in malformed)
          => /\ pc' = "row" /\ idx' = idx + 1
             /\ results' = results
             /\ handles' = handles /\ active' = active
             /\ csv' = csv /\ xlsx' = xlsx]_vars
  /\ [](pc # "advance"
          => \A j \in malformed :
               <<page, j>> \notin Range(results) \cup Range(all_results)
                                \cup Range(csv) \cup Range(xlsx) \cup timeouts)
  /\ [](last.op = "return_results" => AllRowsParsed)

\* a page whose first row lacks a column and whose second row was parsed,
\* looked up and kept
C11_Witness ==
  /\ last.op = "return_results"
  /\ malformed = {1}
  /\ <<page, 2>> \in Range(results) /\ <<page, 2>> \in Range(csv)

\* C12: a structurally malformed row is handed to _parse_patent_element at
\* most once per page visit, also when every row of the page is malformed.
C12_MalformedRowParsedOnce ==
  \A j \in malformed : parse_calls[j] <= 1

(* ---- strategies of a target ------------------------------------------- *)
\* ev holds the call (verb, strategy)
Called(ev, verb, strategy) ==
  \E i \in 1..Len(ev) : ev[i] = <<verb, strategy>>

\* C13: for the section header and for the search button, the fallback
\* strategy is invoked only if the primary lookup found nothing: once the
\* primary strategy returned a handle (so that its click was issued), the
\* fallback is not looked up.
C13_FallbackOnlyWhenPrimaryFindsNothing ==
  last.op = "select_search_options"
    => /\ Called(last.events, "click", "header_by_text")
            => ~Called(last.events, "find", "header_by_class")
       /\ Called(last.events, "click", "button_by_value")
            => ~Called(last.events, "find", "button_in_container")

\* C14: when both strategies of a target fail, the error that leaves
\* _select_search_options is an ElementNotFound that names the target and
\* lists the strategies attempted, in the order they were attempted.
C14_ElementNotFoundListsStrategies ==
  /\ (last.op = "select_search_options" /\ last.raised = "section_header")
       => last.error = [type |-> "ElementNotFound",
                        target |-> "section_header",
                        attempted |-> <<"header_by_text", "header_by_class">>]
  /\ (last.op = "select_search_options" /\ last.raised = "search_button")
       => last.error = [type |-> "ElementNotFound",
                        target |-> "search_button",
                        attempted |-> <<"button_by_value",
                                        "button_in_container">>]

(* ---- resuming after the next-page click ------------------------------- *)
\* C15: _go_to_next_page returns True only after the results container of
\* the new page has been observed; the document-ready wait alone does not
\* let it return True.
C15_ResumeOnlyAfterResultsSeen ==
  (last.op = "go_to_next_page" /\ last.ret) => last.waited = "results"

(* ---- failures of the sinks -------------------------------------------- *)
\* C20: an exception of save_patent_details or save_patent_to_csv does not
\* leave _parse_search_results: the for-loop steps to the next row, the
\* attempt is not over (retry_count is unchanged), the row stays in
\* results, and when _parse_search_results returns every row of the page
\* has been handed to _parse_patent_element.
C20_SinkFailureNonFatal ==
  /\ [][(pc = "save" /\ last'.op = "save" /\ last'.sink_failed)
          => /\ pc' = "row" /\ idx' = idx + 1
             /\ elements' = elements
             /\ retry_count' = retry_count
             /\ results' = results
             /\ <<page, idx>> \in Range(results')]_vars
  /\ []((last.op = "save" /\ last.sink_failed)
          => last.row \in Range(results))
  /\ [](last.op = "return_results" => AllRowsParsed)

\* a sink call failed for the first of two rows
C20_Witness ==
  /\ last.op = "save" /\ last.sink_failed
  /\ pc = "row" /\ idx = 2 /\ idx <= elements
  /\ <<page, 1>> \in Range(results)

(* ---- termination of collect_all_results ------------------------------- *)
\* C16: collect_all_results terminates.  In test mode the page counter
\* never exceeds 3 and at most 3 * 3 = 9 results fetches are made, whatever
\* the environment does; a consultation that finds the next-page control
\* absent, disabled, without an action binding, or whose click fails
\* returns False and the loop ends there; with finitely many pages the
\* method returns.
C16_CollectTerminates ==
  /\ [](test_mode => /\ page <= TestPageCeiling
                      /\ total_fetches <= TestPageCeiling * max_retries)
  /\ [][(pc = "nav" /\ (\/ ~last'.found \/ last'.disabled
                         \/ ~last'.actionable
                         \/ (last'.clicked /\ ~last'.activated)))
          => ~nav_ret']_vars
  /\ [][(pc = "advance" /\ ~nav_ret) => pc' = "done"]_vars
  /\ (pc = "collect") ~> (pc = "done")

\* a test-mode run that used every fetch attempt of its three pages, and a
\* full run
C16_Witness ==
  /\ pc = "done" /\ test_mode
  /\ page = TestPageCeiling
  /\ total_fetches = TestPageCeiling * max_retries

(* ---- label:value parsing ---------------------------------------------- *)
\* y is x without its leading and trailing blanks
IsTrimOf(y, x) ==
  \E i \in 1..(Len(x) + 1), j \in 0..Len(x) :
    /\ i <= j + 1
    /\ y = SubSeq(x, i, j)
    /\ \A a \in 1..(i - 1) : x[a] = " "
    /\ \A b \in (j + 1)..Len(x) : x[b] = " "
    /\ (i <= j => (x[i] # " " /\ x[j] # " "))

\* post is pre with the entry key -> value added or overwritten
IsUpdate(post, pre, key, value) ==
  /\ DOMAIN post = DOMAIN pre \cup {key}
  /\ post[key] = value
  /\ \A x \in DOMAIN pre \ {key} : post[x] = pre[x]

\* C17: _process_paragraph on a text block that was read: a blank block
\* adds nothing; a block without a colon becomes a label with value "";
\* otherwise the block is split at its first colon, the trimmed text before
\* it is the label and the trimmed text after it, later colons included, is
\* the value; the entry replaces an earlier entry of the same label and
\* leaves every other entry alone.
C17_SplitOnFirstColon ==
  (last.op = "process_paragraph" /\ last.p.read = "ok")
    => \E text \in Texts :
         /\ IsTrimOf(text, last.p.text)
         /\ IF text = <<>>
              THEN record = last.pre
            ELSE IF \A i \in 1..Len(text) : text[i] # ":"
              THEN IsUpdate(record, last.pre, text, <<>>)
            ELSE \E k \in 1..Len(text), label \in Texts, value \in Texts :
                   /\ text[k] = ":"
                   /\ \A i \in 1..(k - 1) : text[i] # ":"
                   /\ IsTrimOf(label, SubSeq(text, 1, k - 1))
                   /\ IsTrimOf(value, SubSeq(text, k + 1, Len(text)))
                   /\ IsUpdate(record, last.pre, label, value)

\* the second of two blocks with the same label, whose value holds a colon,
\* replaced the value of the first
C17_Witness ==
  /\ last.op = "process_paragraph" /\ paragraphs = 0
  /\ last.p.text = <<"Dokument", ":", ":">>
  /\ last.pre[<<"Dokument">>] = <<"Dokument">>
  /\ record[<<"Dokument">>] = <<":">>

(* ---- content of the detail record ------------------------------------- *)
\* entries of the status, the fee and the document identifier
CoreKeys == {KeyStatus, KeyFee, KeyDocument}

\* C18 as stated: every record _get_patent_details returns holds a status
\* entry, a fee entry and a document identifier entry, whatever happened
\* while the detail view was consulted.
C18_RecordAlwaysHasCoreEntries ==
  pc = "detail_returned" => CoreKeys \subseteq DOMAIN record

\* C18 as amended: a record returned after a consultation in which no wait
\* timed out and no step raised holds the three entries, also when the page
\* has no status or fee element; after a timeout or an exception the record
\* returned is {} and holds none of them.
C18_NonEmptyRecordHasCoreEntries ==
  pc = "detail_returned"
    => IF last.raised
         THEN record = EmptyRecord /\ details = "empty"
         ELSE CoreKeys \subseteq DOMAIN record /\ details = "full"

\* a record extracted from a page without any StatusR element
C18_Witness ==
  /\ pc = "detail_returned" /\ ~last.raised
  /\ view.status = 0
  /\ record[KeyStatus] = <<>> /\ record[KeyFee] = <<>>
  /\ KeyDocument \in DOMAIN record

\* C19: in every non-empty record returned the document identifier entry
\* is country code + " (11) " + number + " (13) " + kind code of the header,
\* never a text read from the page.
C19_DocumentIsComposition ==
  (pc = "detail_returned" /\ record # EmptyRecord)
    => record[KeyDocument] =
         view.country \o <<" (11) ">> \o view.number \o <<" (13) ">>
           \o view.kind

(* ---- what a completed run reports ------------------------------------- *)
\* what collect_all_results and start_search hand to the caller and to the
\* log when the run completes: the list of rows, and its length ("Total
\* results collected", and the "Found results" line of the entry points).
\* The per-row lines "Processed patent" / "Failed to get details" carry no
\* count.
Report == [returned |-> all_results, found |-> Len(all_results)]

\* C21: a completed run reports the number of rows found and the number of
\* rows for which detail extraction succeeded; the latter is at least the
\* number of detail records stored and at most the number of rows found.
C21_RunReportsBothCounts ==
  pc = "done"
    => /\ Report.found = Len(all_results)
       /\ "succeeded" \in DOMAIN Report
       /\ Len(xlsx) <= Report.succeeded
       /\ Report.succeeded <= Report.found

(* ---- a second lookup of the next-page control that raises ------------- *)
\* C22: when, after _has_next_page returned True, the lookup of the
\* next-page control inside _go_to_next_page raises, no click is issued,
\* _go_to_next_page returns False, and the run ends as done with the page
\* counter unchanged.
C22_FailedLookupEndsRun ==
  /\ []((last.op = "go_to_next_page" /\ last.relookup = "raised")
          => /\ last.found /\ ~last.disabled /\ last.actionable
             /\ ~last.clicked /\ ~last.ret
             /\ pc \in {"advance", "done"}
             /\ ~nav_ret)
  /\ [][(pc = "nav" /\ last'.relookup = "raised")
          => next_clicks' = next_clicks /\ ~nav_ret' /\ page' = page]_vars
  /\ [][(pc = "advance" /\ last.op = "go_to_next_page"
           /\ last.relookup = "raised")
          => pc' = "done" /\ page' = page]_vars

\* the run ended on page 2 because the second lookup raised, although the
\* site offers a further page
C22_Witness ==
  /\ pc = "done" /\ page = 2 /\ more
  /\ last.op = "go_to_next_page" /\ last.relookup = "raised"
  /\ next_clicks = 1

(* ---- a header that cannot be read ------------------------------------- *)
\* C23: when a lookup of the document header raises (and the waits went
\* through), _extract_patent_header returns an empty header without raising
\* and the record of the row is still produced, with its status and fee
\* entries.
C23_HeaderFailureKeepsRecord ==
  (pc = "detail_returned" /\ view.header = "raise" /\ last.cause # "wait")
    => /\ ~ExtractPatentHeaderRun(view).raised
       /\ ~last.raised /\ details = "full"
       /\ {KeyStatus, KeyFee} \subseteq DOMAIN record

(* ---- order of the assignments to the record --------------------------- *)
\* the assignments of lines 255-274 in the order they are made: document
\* name, status, fee, link, synthesized identifier, IPC codes if any, SPK if
\* the element exists
HeadWrites(v) ==
  <<<<IF v.name = "found" THEN DocName ELSE DocNameFallback, <<>>>>,
    <<KeyStatus, IF v.status >= 1 THEN <<"status text">> ELSE <<>>>>,
    <<KeyFee, IF v.status >= 2 THEN <<"fee text">> ELSE <<>>>>,
    <<KeyLink, <<"url">> \o v.number>>,
    <<KeyDocument, ComposeDocument(v.country, v.number, v.kind)>>>>
  \o (IF v.ipc > 0 THEN <<<<KeyIpc, <<"ipc (date)">>>>>> ELSE <<>>)
  \o (IF v.spk THEN <<<<KeySpk, <<"spk text">>>>>> ELSE <<>>)

\* the assignment of the title block, made only when B542 was read and its
\* text holds "(54)"
TitleWrites(t) ==
  IF t.read = "ok" /\ Find(t.text, "(54)", 1) > 0
    THEN <<<<KeyTitle, TitleOf(t.text)>>>>
    ELSE <<>>

\* labels assigned in the list of assignments log
LabelsOf(log) == {log[i][1] : i \in 1..Len(log)}

\* value of the last assignment to label in log
LastWrite(log, label) ==
  log[CHOOSE i \in 1..Len(log) :
        /\ log[i][1] = label
        /\ \A j \in (i + 1)..Len(log) : log[j][1] # label][2]

\* C24: in a record that was extracted, every label holds the value of the
\* last assignment to it in the order: fixed-position fields, free-form
\* blocks in document order, title block.  Hence the last free-form block
\* with the label of a fixed-position field written before the scan
\* replaces that field's value, and a title that was extracted is never
\* replaced by a free-form block.
C24_LastWriteWins ==
  (pc = "detail_returned" /\ ~last.raised)
    => LET log == HeadWrites(view) \o written \o TitleWrites(last.title)
       IN /\ DOMAIN record = LabelsOf(log)
          /\ \A l \in DOMAIN record : record[l] = LastWrite(log, l)
          /\ \A l \in LabelsOf(HeadWrites(view)) \cap LabelsOf(written) :
               record[l] = LastWrite(written, l)
          /\ TitleWrites(last.title) # <<>>
               => record[KeyTitle] = TitleOf(last.title.text)

\* a page whose free-form blocks carry the label of the identifier and the
\* label of the title: the identifier entry holds the block's text, the
\* title entry holds the extracted title
C24_Witness ==
  /\ pc = "detail_returned" /\ ~last.raised
  /\ written = <<<<KeyDocument, <<":">>>>, <<KeyTitle, <<"Dokument">>>>>>
  /\ record[KeyDocument] = <<":">>
  /\ record[KeyTitle] = <<"title">>

(* ---- order of the steps of the search form ---------------------------- *)
\* C25: in _fill_search_form the submit click comes after the query input
\* was located, cleared and typed into, in that order, and after each of the
\* four status checkboxes was looked up; when the query input cannot be
\* located the lookup is the only call made: nothing is typed, no status
\* checkbox is looked up or clicked, no submit click is issued, and
\* start_search raises.
C25_SubmitAfterFillAndFilters ==
  last.op = "fill_search_form"
    => LET ev == last.events
       IN /\ Called(ev, "click", "submit_button")
               => \E a, b, c, s \in 1..Len(ev) :
                    /\ a < b /\ b < c /\ c < s
                    /\ ev[a] = <<"find", "query_input">>
                    /\ ev[b] = <<"clear", "query_input">>
                    /\ ev[c] = <<"type", "query_input">>
                    /\ ev[s] = <<"click", "submit_button">>
                    /\ \A k \in StatusKeys :
                         \E i \in (c + 1)..(s - 1) : ev[i] = <<"find", k>>
          /\ last.raised = "query_input"
               => /\ ev = <<<<"find", "query_input">>>>
                  /\ last.post = last.pre
                  /\ pc = "raised" /\ raise_cause = "query_input"

\* a form that was filled, had its "active" status checkbox ticked, and was
\* submitted
C25_Witness ==
  /\ last.op = "fill_search_form" /\ last.raised = "none"
  /\ Called(last.events, "click", "status_active")
  /\ Called(last.events, "click", "submit_button")
  /\ pc = "collect"

(* ---- a status checkbox that fails ------------------------------------- *)
\* the lookups among the calls ev, in the order they were made
Finds(ev) == SelectSeq(ev, LAMBDA x : x[1] = "find")

\* one lookup per status option, in the order of status_mapping
FindsInOrder == [i \in 1..Len(StatusOrder) |-> <<"find", StatusOrder[i]>>]

\* C26 as stated: a status checkbox that cannot be located or clicked does
\* not stop the pass: each of the four options is looked up exactly once in
\* the order active, may-terminate, terminated-recoverable, terminated, and
\* every checkbox that was located and needed toggling ends in its desired
\* state.
C26_EveryLocatedBoxEndsDesired ==
  last.op = "set_status_filters"
    => /\ Finds(last.events) = FindsInOrder
       /\ \A k \in StatusKeys :
            (last.env[k] # "notfound" /\ last.pre[k] # status_options[k])
              => last.post[k] = status_options[k]

\* C26 as amended: each of the four options is looked up exactly once in
\* the fixed order whatever fails, the pass returns normally, a checkbox is
\* clicked at most once and right after its own lookup, every checkbox that
\* was located, needed toggling and whose click went through ends in its
\* desired state, and a checkbox whose lookup or click failed is left as it
\* was.
C26_FailureDoesNotStopPass ==
  last.op = "set_status_filters"
    => /\ pc = "filters"
       /\ Finds(last.events) = FindsInOrder
       /\ \A i \in 1..Len(last.events) :
            last.events[i][1] = "click"
              => /\ i > 1
                 /\ last.events[i - 1] = <<"find", last.events[i][2]>>
       /\ \A k \in StatusKeys :
            /\ (last.env[k] = "ok" /\ last.pre[k] # status_options[k])
                 => last.post[k] = status_options[k]
            /\ last.env[k] # "ok" => last.post[k] = last.pre[k]
            /\ last.pre[k] = status_options[k] => last.post[k] = last.pre[k]

\* the click on the first checkbox failed and the last checkbox was still
\* looked up and toggled to its desired state
C26_Witness ==
  /\ last.op = "set_status_filters"
  /\ last.env["status_active"] = "clickfail"
  /\ last.pre["status_active"] # status_options["status_active"]
  /\ last.post["status_active"] = last.pre["status_active"]
  /\ last.env["status_terminated"] = "ok"
  /\ last.pre["status_terminated"] # status_options["status_terminated"]
  /\ last.post["status_terminated"] = status_options["status_terminated"]

(* ---- the sinks and the returned list ---------------------------------- *)
\* number of times x occurs in the sequence s
Occurrences(s, x) == Count({i \in 1..Len(s) : s[i] = x})

\* rows that are in the list collect_all_results is building: all_results,
\* and results of the page in progress until it is added to all_results
Collected ==
  IF pc \in {"nav", "advance", "done"} THEN all_results
  ELSE all_results \o results

\* C27: at every point of a run each row appended to the CSV file has its
\* detail workbook written (save_patent_details precedes save_patent_to_csv
\* for the row), and the rows of the CSV file, counted with multiplicity,
\* are among the rows the run returns.
C27_CsvRowsStoredAndReturned ==
  /\ \A r \in Range(csv) :
       /\ Occurrences(csv, r) <= Occurrences(xlsx, r)
       /\ Occurrences(csv, r) <= Occurrences(Collected, r)
  /\ pc = "done" => \A r \in Range(csv) : r \in Range(all_results)
  /\ (last.op = "save" /\ last.row \in Range(csv))
       => (last.details = "full" /\ last.row \in Range(xlsx))

\* a completed run that returned more rows than it appended to the CSV file
C27_Witness ==
  /\ pc = "done"
  /\ Len(csv) >= 2 /\ Len(csv) < Len(all_results)
  /\ Len(xlsx) > Len(csv)

(* ---- rows of one page visit ------------------------------------------- *)
\* C28: within one page visit a results fetch is started only while no
\* attempt has yielded a row, _get_patent_details is called at most once
\* per row, a row that has its columns is handed to _parse_patent_element
\* at most once, no row occurs twice in the list being returned, in the CSV
\* file or among the workbooks written, and in test mode at most TestRowCap
\* rows of a page attempt are handed on, whatever the length of the page.
C28_NoRowProcessedTwice ==
  /\ [][fetches' = fetches + 1 => results = <<>>]_vars
  /\ [](\A j \in RowIds : detail_calls[j] <= 1)
  /\ [](\A j \in RowIds \ malformed : parse_calls[j] <= 1)
  /\ [](/\ \A r \in Range(Collected) : Occurrences(Collected, r) = 1
        /\ \A r \in Range(csv) : Occurrences(csv, r) = 1
        /\ \A r \in Range(xlsx) : Occurrences(xlsx, r) = 1)
  /\ [](test_mode
          => /\ elements <= TestRowCap
             /\ Len(results) <= TestRowCap
             /\ \A j \in RowIds :
                  j > TestRowCap
                    => (parse_calls[j] = 0 /\ detail_calls[j] = 0))

\* a test-mode run over a page of more than TestRowCap rows, whose first
\* fetch attempt yielded nothing and whose second one processed TestRowCap
\* rows
C28_Witness ==
  /\ test_mode /\ page_rows > TestRowCap
  /\ page = 1 /\ pc = "nav" /\ fetches = 2
  /\ Len(all_results) = TestRowCap
  /\ detail_calls[TestRowCap] = 1 /\ parse_calls[TestRowCap] = 1

====
